---- MODULE Spec2Model ----
(***************************************************************************)
(* UAProcessor (opcua/uaprocessor.py): the per-connection OPC UA binary    *)
(* protocol processor.  One read thread runs loop(); the subscription      *)
(* engine calls forward_publish_response from its own threads once a       *)
(* CreateSubscription request has handed it the callback.                  *)
(*                                                                         *)
(* Granularity: a step of a thread is one access to state another thread   *)
(* can see (self.channel, self._publishdata_queue, self._seq_number,       *)
(* self._lock, the socket); statements that touch only the thread's own    *)
(* locals are folded into the step that precedes them.  An exception that  *)
(* nothing in uaprocessor.py catches ends the thread: pc = "raised".       *)
(* The codec (ua.*.from_binary / to_binary) is outside this file; frames   *)
(* are taken as decoded, and a frame's body is either read in full or cut  *)
(* short by the transport.                                                 *)
(***************************************************************************)
EXTENDS Integers, Sequences, FiniteSets, TLC

\* ---------------------------------------------------------------- bounds
MaxFrames == 5        \* frames the client sends on one connection (Spec)
MaxPublishFrames == 6 \* the same, for a client that keeps to the publish menu (PublishSpec)
MaxEndingFrames == 5  \* the length of the longest stream that ends (EndingSpec)
MaxNotifs == 2        \* notifications the subscription engine delivers
NumCallbacks == 2     \* threads of the subscription engine

\* ------------------------------------------------------------- constants
InitialSeqNumber == 1       \* self._seq_number = 1
InitialTokenId == 13        \* self.channel.SecurityToken.TokenId = 13

ReadThread == 0
Callbacks == 1..NumCallbacks
Threads == {ReadThread} \cup Callbacks

NoChannel == [ChannelId |-> -1, TokenId |-> -1]     \* self.channel = None
\* ua.OpenSecureChannelResult(): a fresh record, before lines 292-293 fill it in
\* (its initial ids are the codec's; they are taken as 0)
NewChannel == [ChannelId |-> 0, TokenId |-> 0]

\* ua.MessageType
MessageTypes == {"Hello", "Acknowledge", "Error", "SecureOpen", "SecureMessage", "SecureClose"}

\* the type-ids process_message compares against, and one it does not know
SessionServices ==
    {"CloseSessionRequest", "ReadRequest", "WriteRequest", "BrowseRequest",
     "TranslateBrowsePathsToNodeIdsRequest", "AddNodesRequest",
     "CreateSubscriptionRequest", "DeleteSubscriptionsRequest",
     "CreateMonitoredItemsRequest", "DeleteMonitoredItemsRequest"}
SupportedTypeIds ==
    SessionServices \cup {"CreateSessionRequest", "ActivateSessionRequest",
                          "GetEndpointsRequest", "PublishRequest"}
UnknownTypeId == "UnknownRequest"

\* the response structure each branch of process_message builds
ResponseOf(typeid) ==
    CASE typeid = "CreateSessionRequest" -> "CreateSessionResponse"
      [] typeid = "CloseSessionRequest" -> "CloseSessionResponse"
      [] typeid = "ActivateSessionRequest" -> "ActivateSessionResponse"
      [] typeid = "ReadRequest" -> "ReadResponse"
      [] typeid = "WriteRequest" -> "WriteResponse"
      [] typeid = "BrowseRequest" -> "BrowseResponse"
      [] typeid = "GetEndpointsRequest" -> "GetEndpointsResponse"
      [] typeid = "TranslateBrowsePathsToNodeIdsRequest" -> "TranslateBrowsePathsToNodeIdsResponse"
      [] typeid = "AddNodesRequest" -> "AddNodesResponse"
      [] typeid = "CreateSubscriptionRequest" -> "CreateSubscriptionResponse"
      [] typeid = "DeleteSubscriptionsRequest" -> "DeleteSubscriptionsResponse"
      [] typeid = "CreateMonitoredItemsRequest" -> "CreateMonitoredItemsResponse"
      [] typeid = "DeleteMonitoredItemsRequest" -> "DeleteMonitoredItemsResponse"
      [] OTHER -> "ServiceFault"

\* ---------------------------------------------------------------- inputs
\* What one read of the stream can yield: a frame, read in full; a frame whose
\* body the transport cuts short; or the end of the stream.
\* The processor only copies a request handle into the reply and never compares
\* two of them, so the client numbers its requests: the k-th frame of the
\* connection carries handle k, and every request is told apart from every other.
Frame(mt, cid, rt, tid) ==
    [MessageType |-> mt, ChannelId |-> cid, RequestType |-> rt, TypeId |-> tid,
     RequestHandle |-> 0, Body |-> "full"]
NoFrame == Frame("None", 0, "-", "-")
EndOfStream == Frame("EOF", 0, "-", "-")
ShortBody == [Frame("SecureMessage", 0, "-", "-") EXCEPT !.Body = "short"]

PlainFrames == {Frame(mt, 0, "-", "-") : mt \in {"Hello", "Acknowledge", "Error"}}
OpenFrames == {Frame("SecureOpen", 0, rt, "-") : rt \in {"Issue", "Renew"}}
CloseFrames == {Frame("SecureClose", cid, "-", "-") : cid \in 1..2}
MessageFrames(typeids) == {Frame("SecureMessage", 0, "-", tid) : tid \in typeids}

\* ----------------------------------------------------------------- state
VARIABLES
    pc,                 \* where each thread is
    session,            \* self.session: FALSE is None
    channel,            \* self.channel
    lock,               \* self._lock: the thread holding it, or -1
    publishdata_queue,  \* self._publishdata_queue: the request handles of the slots
    seq_number,         \* self._seq_number
    socket,             \* what has been sent on the socket, in order
    header,             \* the frame the read thread is processing
    call,               \* each thread's send_response activation (its arguments and locals)
    framesRead,         \* frames the client has sent so far
    subscribed,         \* the session holds forward_publish_response as its callback
    nextChannelId,      \* iserver.get_new_channel_id()
    delivered,          \* notifications the subscription engine has delivered so far
    history             \* bookkeeping the claims are stated over (no code reads it)

vars == <<pc, session, channel, lock, publishdata_queue, seq_number, socket, header,
          call, framesRead, subscribed, nextChannelId, delivered, history>>

NoCall == [requesthandle |-> 0, msgtype |-> "-", response |-> "-", result |-> "-",
           notification |-> 0, seq |-> 0, channelId |-> -1, tokenId |-> -1,
           openAt60 |-> NoChannel, openAt61 |-> NoChannel]

NoHistory ==
    [exit |-> "-",            \* why loop() ended
     firstIn |-> "-",         \* type of the first incoming frame, once read in full
     facadeCalls |-> 0,       \* calls made into the session facade
     lastOpen |-> NoChannel,  \* channel id and token id when _open_secure_channel last returned
     pushed |-> <<>>,         \* handles of the PublishRequests enqueued, in order
     popped |-> 0,            \* slots popped
     closeMatched |-> FALSE,  \* a SecureClose with the record's channel id was processed
     lateFrom |-> 0]          \* number of the first notification delivered after loop() ended

Init ==
    /\ pc = [t \in Threads |-> IF t = ReadThread THEN "hello" ELSE "idle"]
    /\ session = FALSE
    /\ channel = NoChannel
    /\ lock = -1
    /\ publishdata_queue = <<>>
    /\ seq_number = InitialSeqNumber
    /\ socket = <<>>
    /\ header = NoFrame
    /\ call = [t \in Threads |-> NoCall]
    /\ framesRead = 0
    /\ subscribed = FALSE
    /\ nextChannelId = 1
    /\ delivered = 0
    /\ history = NoHistory

\* ------------------------------------------------------------- helpers
Goto(t, label) == pc' = [pc EXCEPT ![t] = label]
Note(field, value) == history' = [history EXCEPT ![field] = value]

\* a chunk as write_socket puts it on the socket
Chunk(mt, c) ==
    [MessageType |-> mt, ChunkType |-> "Single", ChannelId |-> c.channelId,
     TokenId |-> c.tokenId, SequenceNumber |-> c.seq, RequestHandle |-> c.requesthandle,
     Response |-> c.response, Result |-> c.result, Notification |-> c.notification]

\* a mutant of Reply: the request's handle is not passed on
ReplyWithoutHandle(handle, msgtype, response, result, notification) ==
    [NoCall EXCEPT !.msgtype = msgtype, !.response = response,
                   !.result = result, !.notification = notification]

\* the arguments of a send_response call
Reply(handle, msgtype, response, result, notification) ==
    [NoCall EXCEPT !.requesthandle = handle, !.msgtype = msgtype, !.response = response,
                   !.result = result, !.notification = notification]

\* ------------------------------------------------- loop: the handshake
HandshakeInputs ==
    {Frame(mt, 0, "-", "-") : mt \in MessageTypes} \cup {EndOfStream, ShortBody}

\* a mutant of IsHello: an Acknowledge passes for a Hello
IsHelloOrAcknowledge(f) == f.MessageType \in {"Hello", "Acknowledge"}

\* loop, line 32
IsHello(f) == f.MessageType = "Hello"

\* loop, lines 30-42: the first frame must be a Hello
Handshake ==
    /\ pc[ReadThread] = "hello"
    /\ \E f \in HandshakeInputs :
        /\ framesRead' = framesRead + 1
        /\ IF f.MessageType = "EOF" \/ f.Body = "short"
           THEN \* header is None (line 31), or receive_body raises (line 81)
                /\ Goto(ReadThread, "raised")
                /\ Note("exit", "exception")
                /\ UNCHANGED socket
           ELSE IF ~IsHello(f)
           THEN /\ socket' = Append(socket, Chunk("Error", NoCall))
                /\ Goto(ReadThread, "done")
                /\ history' = [history EXCEPT !.exit = "not_hello", !.firstIn = f.MessageType]
           ELSE /\ socket' = Append(socket, Chunk("Acknowledge", [NoCall EXCEPT !.response = "Acknowledge"]))
                /\ Goto(ReadThread, "loop")
                /\ history' = [history EXCEPT !.firstIn = f.MessageType]
    /\ UNCHANGED <<session, channel, lock, publishdata_queue, seq_number, header, call,
                   subscribed, nextChannelId, delivered>>

\* ------------------------------------------------ loop: the steady state
\* a mutant of IsErrorFrame: no frame is taken for an Error frame
IsErrorFrameNever(f) == FALSE

\* loop, line 48
IsErrorFrame(f) == f.MessageType = "Error"

\* loop, lines 45-51: read one header, and its body
ReadHeader(menu, max) ==
    /\ pc[ReadThread] = "loop"
    /\ framesRead < max
    /\ \E f \in menu \cup {EndOfStream, ShortBody} :
        /\ framesRead' = framesRead + 1
        /\ header' = [f EXCEPT !.RequestHandle = framesRead + 1]
        /\ IF f.MessageType = "EOF"
           THEN Goto(ReadThread, "done") /\ Note("exit", "eof")
           ELSE IF IsErrorFrame(f)
           THEN Goto(ReadThread, "done") /\ Note("exit", "error_frame")
           ELSE IF f.Body = "short"
           THEN Goto(ReadThread, "raised") /\ Note("exit", "exception")
           ELSE Goto(ReadThread, "process_body") /\ UNCHANGED history
    /\ UNCHANGED <<session, channel, lock, publishdata_queue, seq_number, socket, call,
                   subscribed, nextChannelId, delivered>>

\* loop, lines 45-47, when the client has sent its last frame and closed the
\* stream: the read yields end-of-stream
StreamEnds(max) ==
    /\ pc[ReadThread] = "loop"
    /\ framesRead = max
    /\ framesRead' = framesRead + 1
    /\ header' = [EndOfStream EXCEPT !.RequestHandle = framesRead + 1]
    /\ Goto(ReadThread, "done") /\ Note("exit", "eof")
    /\ UNCHANGED <<session, channel, lock, publishdata_queue, seq_number, socket, call,
                   subscribed, nextChannelId, delivered>>

\* a mutant of CloseMismatch: a SecureClose with no record passes for a match
CloseMismatchOfRecord(h) == channel # NoChannel /\ h.ChannelId # channel.ChannelId

\* process_body, line 111: the SecureClose names a channel that is not the record's
CloseMismatch(h) == channel = NoChannel \/ h.ChannelId # channel.ChannelId

\* process_body, lines 106-122, and loop, lines 52-53
ProcessBody ==
    /\ pc[ReadThread] = "process_body"
    /\ IF header.MessageType = "SecureOpen"
       THEN Goto(ReadThread, "open_secure_channel") /\ UNCHANGED history
       ELSE IF header.MessageType = "SecureClose"
       THEN IF CloseMismatch(header)
            THEN Goto(ReadThread, "done") /\ Note("exit", "close_mismatch")
            ELSE Goto(ReadThread, "loop") /\ Note("closeMatched", TRUE)
       ELSE IF header.MessageType = "SecureMessage"
       THEN Goto(ReadThread, "process_message") /\ UNCHANGED history
       ELSE Goto(ReadThread, "loop") /\ UNCHANGED history
    /\ UNCHANGED <<session, channel, lock, publishdata_queue, seq_number, socket, header,
                   call, framesRead, subscribed, nextChannelId, delivered>>

\* --------------------------------------------------- _open_secure_channel
\* lines 290-291
OpenNewRecord ==
    /\ pc[ReadThread] = "open_secure_channel"
    /\ IF header.RequestType = "Issue"
       THEN channel' = NewChannel /\ Goto(ReadThread, "osc_292")
       ELSE UNCHANGED channel /\ Goto(ReadThread, "osc_295")
    /\ UNCHANGED <<session, lock, publishdata_queue, seq_number, socket, header, call,
                   framesRead, subscribed, nextChannelId, delivered, history>>

\* line 292
OpenSetToken ==
    /\ pc[ReadThread] = "osc_292"
    /\ channel' = [channel EXCEPT !.TokenId = InitialTokenId]
    /\ Goto(ReadThread, "osc_293")
    /\ UNCHANGED <<session, lock, publishdata_queue, seq_number, socket, header, call,
                   framesRead, subscribed, nextChannelId, delivered, history>>

\* line 293
OpenSetChannelId ==
    /\ pc[ReadThread] = "osc_293"
    /\ channel' = [channel EXCEPT !.ChannelId = nextChannelId]
    /\ nextChannelId' = nextChannelId + 1
    /\ Goto(ReadThread, "osc_295")
    /\ UNCHANGED <<session, lock, publishdata_queue, seq_number, socket, header, call,
                   framesRead, subscribed, delivered, history>>

\* lines 295-299, and open_secure_channel, lines 91-93
OpenBumpToken ==
    /\ pc[ReadThread] = "osc_295"
    /\ IF channel = NoChannel
       THEN /\ Goto(ReadThread, "raised") /\ Note("exit", "exception")
            /\ UNCHANGED <<channel, call>>
       ELSE /\ channel' = [channel EXCEPT !.TokenId = @ + 1]
            /\ Note("lastOpen", channel')
            /\ call' = [call EXCEPT ![ReadThread] =
                          Reply(header.RequestHandle, "SecureOpen", "OpenSecureChannelResponse", "-", 0)]
            /\ Goto(ReadThread, "send_response")
    /\ UNCHANGED <<session, lock, publishdata_queue, seq_number, socket, header,
                   framesRead, subscribed, nextChannelId, delivered>>

\* -------------------------------------------------------- process_message
\* the result ActivateSession answers with, lines 151-154
ActivateResult(s) == IF ~s THEN "BadSessionIdInvalid" ELSE "Good"

\* the status a ServiceFault carries, line 285
FaultResult == "BadNotImplemented"

\* a mutant of Enqueue: the slot is not in the queue when session.publish is called
EnqueueNothing(q, h) == q

\* line 276: self._publishdata_queue.append(seqhdr)
Enqueue(q, h) == Append(q, h)

\* lines 124-276 and 282-286: one branch per type-id, up to the call of send_response
ProcessMessage ==
    /\ pc[ReadThread] = "process_message"
    /\ LET tid == header.TypeId
           h == header.RequestHandle
           send(result) ==
               /\ call' = [call EXCEPT ![ReadThread] =
                             Reply(h, "SecureMessage", ResponseOf(tid), result, 0)]
               /\ Goto(ReadThread, "send_response")
       IN
       IF tid = "CreateSessionRequest"
       THEN /\ session' = TRUE
            /\ Note("facadeCalls", history.facadeCalls + 1)
            /\ send("Good")
            /\ UNCHANGED <<publishdata_queue, subscribed>>
       ELSE IF tid = "ActivateSessionRequest"
       THEN /\ Note("facadeCalls", history.facadeCalls + (IF session THEN 1 ELSE 0))
            /\ send(ActivateResult(session))
            /\ UNCHANGED <<session, publishdata_queue, subscribed>>
       ELSE IF tid = "GetEndpointsRequest"
       THEN /\ send("Good")
            /\ UNCHANGED <<session, publishdata_queue, subscribed, history>>
       ELSE IF tid = "PublishRequest"
       THEN /\ publishdata_queue' = Enqueue(publishdata_queue, h)
            /\ Note("pushed", Append(history.pushed, h))
            /\ Goto(ReadThread, "publish")
            /\ UNCHANGED <<session, subscribed, call>>
       ELSE IF tid \in SessionServices
       THEN IF ~session
            THEN \* self.session is None: AttributeError
                 /\ Goto(ReadThread, "raised") /\ Note("exit", "exception")
                 /\ UNCHANGED <<session, publishdata_queue, subscribed, call>>
            ELSE /\ subscribed' = (subscribed \/ tid = "CreateSubscriptionRequest")
                 /\ Note("facadeCalls", history.facadeCalls + 1)
                 /\ send("Good")
                 /\ UNCHANGED <<session, publishdata_queue>>
       ELSE /\ send(FaultResult)
            /\ UNCHANGED <<session, publishdata_queue, subscribed, history>>
    /\ UNCHANGED <<channel, lock, seq_number, socket, header, framesRead, nextChannelId, delivered>>

\* line 277: self.session.publish(acks)
Publish ==
    /\ pc[ReadThread] = "publish"
    /\ IF ~session
       THEN Goto(ReadThread, "raised") /\ Note("exit", "exception")
       ELSE Goto(ReadThread, "loop") /\ Note("facadeCalls", history.facadeCalls + 1)
    /\ UNCHANGED <<session, channel, lock, publishdata_queue, seq_number, socket, header,
                   call, framesRead, subscribed, nextChannelId, delivered>>

\* ---------------------------------------------------------- send_response
\* a mutant of LockFree: the lock excludes nobody
LockFreeAlways == TRUE

\* Lock.acquire: the lock is free
LockFree == lock = -1

\* a mutant of NextSeqNumber: the counter is not advanced
NextSeqNumberStuck(n) == n

\* line 59: self._seq_number += 1
NextSeqNumber(n) == n + 1

\* where a thread goes when its call returns: the read thread to the next read,
\* a thread of the subscription engine back to the engine
Return(t) == IF t = ReadThread THEN "loop" ELSE "idle"

\* lines 56-59: take the lock, stamp the sequence header, advance the counter
SendAcquire(t) ==
    /\ pc[t] = "send_response"
    /\ LockFree
    /\ lock' = t
    /\ call' = [call EXCEPT ![t].seq = seq_number]
    /\ seq_number' = NextSeqNumber(seq_number)
    /\ Goto(t, "sr_60")
    /\ UNCHANGED <<session, channel, publishdata_queue, socket, header, framesRead,
                   subscribed, nextChannelId, delivered, history>>

\* line 60: the channel id of the record goes into the header
SendHeader(t) ==
    /\ pc[t] = "sr_60"
    /\ IF channel = NoChannel
       THEN \* AttributeError; the with statement releases the lock
            /\ Goto(t, "raised")
            /\ lock' = -1
            /\ call' = [call EXCEPT ![t] = NoCall]
            /\ history' = IF t = ReadThread THEN [history EXCEPT !.exit = "exception"] ELSE history
       ELSE /\ call' = [call EXCEPT ![t].channelId = channel.ChannelId,
                                    ![t].openAt60 = history.lastOpen]
            /\ Goto(t, "sr_61")
            /\ UNCHANGED <<lock, history>>
    /\ UNCHANGED <<session, channel, publishdata_queue, seq_number, socket, header,
                   framesRead, subscribed, nextChannelId, delivered>>

\* line 61: the token id of the record goes into the algorithm header
SendToken(t) ==
    /\ pc[t] = "sr_61"
    /\ call' = [call EXCEPT ![t].tokenId = channel.TokenId,
                            ![t].openAt61 = history.lastOpen]
    /\ Goto(t, "sr_62")
    /\ UNCHANGED <<session, channel, lock, publishdata_queue, seq_number, socket, header,
                   framesRead, subscribed, nextChannelId, delivered, history>>

\* line 62, write_socket (lines 64-75), and the release of the lock
SendWrite(t) ==
    /\ pc[t] = "sr_62"
    /\ socket' = Append(socket, Chunk(call[t].msgtype, call[t]))
    /\ lock' = -1
    /\ call' = [call EXCEPT ![t] = NoCall]
    /\ Goto(t, Return(t))
    /\ UNCHANGED <<session, channel, publishdata_queue, seq_number, header, framesRead,
                   subscribed, nextChannelId, delivered, history>>

\* ----------------------------------------------- forward_publish_response
\* the subscription engine calls forward_publish_response(result) on thread t;
\* its threads are alike, so a delivery takes the first one that is idle
Deliver(t) ==
    /\ pc[t] = "idle"
    /\ \A u \in Callbacks : u < t => pc[u] # "idle"
    /\ subscribed
    /\ delivered < MaxNotifs
    /\ delivered' = delivered + 1
    /\ call' = [call EXCEPT ![t] = [NoCall EXCEPT !.notification = delivered + 1]]
    /\ Goto(t, "fpr_97")
    /\ Note("lateFrom", IF pc[ReadThread] \in {"done", "raised"} /\ history.lateFrom = 0
                        THEN delivered + 1 ELSE history.lateFrom)
    /\ UNCHANGED <<session, channel, lock, publishdata_queue, seq_number, socket, header,
                   framesRead, subscribed, nextChannelId>>

\* line 277, with a session facade that calls forward_publish_response back
\* before session.publish returns, on the thread that called it
PublishCallsBack ==
    /\ pc[ReadThread] = "publish"
    /\ session /\ subscribed
    /\ delivered < MaxNotifs
    /\ delivered' = delivered + 1
    /\ call' = [call EXCEPT ![ReadThread] = [NoCall EXCEPT !.notification = delivered + 1]]
    /\ Goto(ReadThread, "fpr_97")
    /\ Note("facadeCalls", history.facadeCalls + 1)
    /\ UNCHANGED <<session, channel, lock, publishdata_queue, seq_number, socket, header,
                   framesRead, subscribed, nextChannelId>>

\* lines 97-99
CheckQueue(t) ==
    /\ pc[t] = "fpr_97"
    /\ IF Len(publishdata_queue) = 0
       THEN Goto(t, Return(t)) /\ call' = [call EXCEPT ![t] = NoCall]
       ELSE Goto(t, "fpr_103") /\ UNCHANGED call
    /\ UNCHANGED <<session, channel, lock, publishdata_queue, seq_number, socket, header,
                   framesRead, subscribed, nextChannelId, delivered, history>>

\* lines 100-104, up to the call of send_response
PopQueue(t) ==
    /\ pc[t] = "fpr_103"
    /\ IF Len(publishdata_queue) = 0
       THEN \* pop from empty list: IndexError
            /\ Goto(t, "raised")
            /\ IF t = ReadThread THEN Note("exit", "exception") ELSE UNCHANGED history
            /\ UNCHANGED <<publishdata_queue, call>>
       ELSE /\ publishdata_queue' = Tail(publishdata_queue)
            /\ call' = [call EXCEPT ![t] =
                          Reply(Head(publishdata_queue), "SecureMessage", "PublishResponse",
                                "-", call[t].notification)]
            /\ Note("popped", history.popped + 1)
            /\ Goto(t, "send_response")
    /\ UNCHANGED <<session, channel, lock, seq_number, socket, header, framesRead,
                   subscribed, nextChannelId, delivered>>

\* ----------------------------------------------------------- specification
\* the type-ids the client draws its requests from
TypeIds == SupportedTypeIds \cup {UnknownTypeId}

Menu == PlainFrames \cup OpenFrames \cup CloseFrames \cup MessageFrames(TypeIds)

\* a client that opens a channel and a session, subscribes and publishes
PublishTypeIds ==
    {"CreateSessionRequest", "CreateSubscriptionRequest", "PublishRequest", UnknownTypeId}

PublishMenu == OpenFrames \cup MessageFrames(PublishTypeIds)

\* what the threads do once a frame is read
Work ==
    \/ ProcessBody
    \/ OpenNewRecord
    \/ OpenSetToken
    \/ OpenSetChannelId
    \/ OpenBumpToken
    \/ ProcessMessage
    \/ Publish
    \/ \E t \in Threads : SendAcquire(t)
    \/ \E t \in Threads : SendHeader(t)
    \/ \E t \in Threads : SendToken(t)
    \/ \E t \in Threads : SendWrite(t)
    \/ \E t \in Callbacks : CheckQueue(t)
    \/ \E t \in Callbacks : PopQueue(t)

\* the threads, and the subscription engine calling back when it pleases
Step == Work \/ \E t \in Callbacks : Deliver(t)

Next == Handshake \/ ReadHeader(Menu, MaxFrames) \/ Step

Spec == Init /\ [][Next]_vars

PublishNext == Handshake \/ ReadHeader(PublishMenu, MaxPublishFrames) \/ Step

PublishSpec == Init /\ [][PublishNext]_vars

\* the publishing client, with a session facade that may also call back
\* synchronously from inside session.publish
SyncNext ==
    \/ PublishNext
    \/ PublishCallsBack
    \/ CheckQueue(ReadThread)
    \/ PopQueue(ReadThread)

SyncSpec == Init /\ [][SyncNext]_vars

\* a client that sends at most MaxEndingFrames frames and then closes the stream.
\* Every read returns (a frame or the end of the stream arrives) and the
\* interpreter runs a thread as long as one can run; the subscription engine
\* owes no notification.
EndingMenu == {Frame("Error", 0, "-", "-")} \cup PublishMenu
Reads == Handshake \/ ReadHeader(EndingMenu, MaxEndingFrames) \/ StreamEnds(MaxEndingFrames)
EndingNext == Reads \/ Step
EndingSpec == Init /\ [][EndingNext]_vars /\ WF_vars(Reads \/ Work)


\* =================================================================== claims
SecureTypes == {"SecureOpen", "SecureMessage"}
IsSecure(c) == c.MessageType \in SecureTypes
IsPublishResponse(c) == c.Response = "PublishResponse"
SecureChunks == SelectSeq(socket, IsSecure)
PublishChunks == SelectSeq(socket, IsPublishResponse)
Sending == {"send_response", "sr_60", "sr_61", "sr_62"}
ReadStep == pc'[ReadThread] # pc[ReadThread]
Dispatched == pc[ReadThread] \in {"process_message"} \cup Sending
LastSent == socket'[Len(socket')]

\* C1: the secure chunks on the socket carry the sequence numbers 1, 2, 3, ... in
\* the order they were sent: no gap, no duplicate, whichever thread sent them.
C1_SequenceNumbers ==
    \A i \in 1..Len(SecureChunks) : SecureChunks[i].SequenceNumber = i

\* C1 witness: a SecureOpen reply, then a publish response from a callback thread,
\* then a ServiceFault from the read thread.
C1_Witness ==
    \E i, j \in 1..Len(SecureChunks) :
        /\ i < j
        /\ SecureChunks[1].MessageType = "SecureOpen"
        /\ SecureChunks[i].Response = "PublishResponse"
        /\ SecureChunks[j].Response = "ServiceFault"

\* C2: after the handshake at most one thread is in write_socket, and the chunks
\* are on the socket in the order of their sequence numbers.
C2_OneWriter ==
    /\ Cardinality({t \in Threads : pc[t] = "sr_62"}) <= 1
    /\ \A i, j \in 1..Len(SecureChunks) :
          i < j => SecureChunks[i].SequenceNumber < SecureChunks[j].SequenceNumber

\* C2 witness: a callback thread is writing its publish response while the read
\* thread waits for the lock with a reply of its own.
C2_Witness ==
    /\ pc[ReadThread] = "send_response"
    /\ \E t \in Callbacks : pc[t] = "sr_62" /\ lock = t

\* C3: the channel id and token id a reply is assembled with are those of the
\* record as the last completed _open_secure_channel left it (at line 60 or at
\* line 61 of the assembly).
C3_ConsistentRecord ==
    \A t \in Threads :
        pc[t] = "sr_62" =>
            [ChannelId |-> call[t].channelId, TokenId |-> call[t].tokenId]
                \in {call[t].openAt60, call[t].openAt61}

\* C4: the queue holds the slots pushed and not yet popped, every pop is followed
\* by one PublishResponse, and no callback fails on an empty queue.
C4_QueueAccounting ==
    /\ Len(publishdata_queue) = Len(history.pushed) - history.popped
    /\ history.popped = Len(PublishChunks)
                        + Cardinality({t \in Callbacks : pc[t] \in Sending})
    /\ \A t \in Callbacks : pc[t] # "raised"

\* C5: publish responses go out first in, first out: in the order of the socket
\* their handles are those of the PublishRequests in arrival order, and their
\* payloads are the notifications in the order they were delivered.
C5_PublishFifo ==
    \A i \in 1..Len(PublishChunks) :
        /\ PublishChunks[i].RequestHandle = history.pushed[i]
        /\ i > 1 => /\ PublishChunks[i - 1].Notification < PublishChunks[i].Notification
                    /\ PublishChunks[i - 1].SequenceNumber < PublishChunks[i].SequenceNumber

\* C6: the first chunk sent is an Acknowledge or an Error; after a Hello it is the
\* Acknowledge and the loop goes on; after a first frame of any other type the
\* socket carries one Error header with chunk type Single and nothing else, no
\* further frame is read and loop() has returned.
C6_FirstFrame ==
    /\ Len(socket) > 0 => socket[1].MessageType \in {"Acknowledge", "Error"}
    /\ history.firstIn = "Hello" =>
          /\ socket[1].MessageType = "Acknowledge"
          /\ framesRead = 1 => pc[ReadThread] = "loop"
    /\ history.firstIn \in MessageTypes \ {"Hello"} =>
          /\ Len(socket) = 1
          /\ socket[1].MessageType = "Error" /\ socket[1].ChunkType = "Single"
          /\ framesRead = 1
          /\ pc[ReadThread] = "done"

\* C6 witness: the first frame was a SecureOpen and loop() has returned.
C6_Witness == history.firstIn = "SecureOpen" /\ pc[ReadThread] = "done"

\* C7: an ActivateSession request taken up while no session is bound is answered
\* with an ActivateSessionResponse carrying BadSessionIdInvalid and the request's
\* handle; no call goes to the session facade and the loop goes on.
C7_ActivateWithoutSession ==
    [][(/\ header.MessageType = "SecureMessage"
        /\ header.TypeId = "ActivateSessionRequest"
        /\ ~session
        /\ Dispatched
        /\ ReadStep)
       => /\ pc'[ReadThread] # "raised"
          /\ history'.facadeCalls = history.facadeCalls
          /\ pc[ReadThread] = "sr_62" =>
                /\ Len(socket') = Len(socket) + 1
                /\ LastSent.Response = "ActivateSessionResponse"
                /\ LastSent.Result = "BadSessionIdInvalid"
                /\ LastSent.RequestHandle = header.RequestHandle
                /\ pc'[ReadThread] = "loop"]_vars

\* C8: a SecureClose whose channel id is not the record's, or that finds no
\* record, changes neither the record, the session binding, the sequence counter
\* nor the publish queue, sends nothing, and ends the loop.
C8_CloseMismatch ==
    [][(/\ pc[ReadThread] = "process_body"
        /\ header.MessageType = "SecureClose"
        /\ (channel = NoChannel \/ header.ChannelId # channel.ChannelId)
        /\ ReadStep)
       => /\ channel' = channel
          /\ session' = session
          /\ seq_number' = seq_number
          /\ publishdata_queue' = publishdata_queue
          /\ socket' = socket
          /\ pc'[ReadThread] = "done"]_vars

\* C8 witness: the loop ended on a SecureClose for another channel than the open one.
C8_Witness ==
    /\ history.exit = "close_mismatch"
    /\ channel # NoChannel
    /\ header.ChannelId # channel.ChannelId

\* C9: once a SecureClose with the record's channel id has been processed, the
\* record is dropped and loop() has returned.
C9_CloseMatch ==
    history.closeMatched => (channel = NoChannel /\ pc[ReadThread] = "done")

\* C10: a request with an unsupported type-id is answered with one ServiceFault
\* carrying the request's handle and BadNotImplemented; the loop goes on, and the
\* session binding and the publish queue are left as they were.
C10_UnknownService ==
    [][(/\ header.MessageType = "SecureMessage"
        /\ header.TypeId \notin SupportedTypeIds
        /\ Dispatched
        /\ ReadStep)
       => /\ pc'[ReadThread] # "raised"
          /\ session' = session
          /\ publishdata_queue' = publishdata_queue
          /\ pc[ReadThread] = "sr_62" =>
                /\ Len(socket') = Len(socket) + 1
                /\ LastSent.Response = "ServiceFault"
                /\ LastSent.Result = "BadNotImplemented"
                /\ LastSent.RequestHandle = header.RequestHandle
                /\ pc'[ReadThread] = "loop"]_vars

IsRequest == header.MessageType = "SecureMessage" /\ header.Body = "full"

\* C11: a forward_publish_response called after loop() has ended is a no-op: no
\* chunk on the socket carries a notification delivered after the exit, also
\* when slots were still queued.
C11_NoWriteAfterExit ==
    history.lateFrom > 0 =>
        \A i \in 1..Len(socket) : socket[i].Notification < history.lateFrom

\* C12: after Hello/Acknowledge and one SecureOpen{Issue} exchange, the replies to
\* CreateSession, ActivateSession and CloseSession carry their request's handle
\* and the sequence numbers 1, 2 and 3.
SessionScenario ==
    /\ framesRead = 5 /\ Len(socket) = 5
    /\ socket[2].Response = "OpenSecureChannelResponse"
    /\ socket[3].Response = "CreateSessionResponse"
    /\ socket[4].Response = "ActivateSessionResponse"
    /\ socket[5].Response = "CloseSessionResponse"

C12_SessionSequence ==
    SessionScenario =>
        \A k \in 3..5 : socket[k].RequestHandle = k /\ socket[k].SequenceNumber = k - 2

\* C12, amended: the SecureOpen reply carries sequence number 1, so the three
\* replies carry their request's handle and the sequence numbers 2, 3 and 4.
C12_SessionSequenceAfterOpen ==
    SessionScenario =>
        /\ socket[2].SequenceNumber = 1
        /\ \A k \in 3..5 : socket[k].RequestHandle = k /\ socket[k].SequenceNumber = k - 1

\* C12 witness: the five frames of the scenario have been answered.
C12_Witness == SessionScenario /\ pc[ReadThread] = "loop"

\* C13: a channel id is requested from the internal server only by an Issue that
\* finds no record, and the channel id of the connection never changes once an
\* OpenSecureChannel has assigned it.
C13_ChannelIdStable ==
    [][/\ nextChannelId' # nextChannelId =>
            (header.RequestType = "Issue" /\ history.lastOpen = NoChannel)
       /\ history.lastOpen # NoChannel =>
            channel'.ChannelId = history.lastOpen.ChannelId]_vars

\* C14: every OpenSecureChannel handled on an existing channel leaves a token id
\* that differs from the one in force before the request.
C14_TokenChanges ==
    [][(/\ pc[ReadThread] = "osc_295"
        /\ pc'[ReadThread] = "send_response"
        /\ history.lastOpen # NoChannel)
       => history'.lastOpen.TokenId # history.lastOpen.TokenId]_vars

\* C15: the processor holds no session binding once the reply to a CloseSession
\* has been sent, nor once loop() has ended.
C15_SessionCleared ==
    /\ (IsRequest /\ header.TypeId = "CloseSessionRequest" /\ pc[ReadThread] = "loop")
          => ~session
    /\ pc[ReadThread] \in {"done", "raised"} => ~session

\* C16: a session-scoped request other than ActivateSession that finds no session
\* bound does not end the read thread in an unhandled exception, and a
\* PublishRequest in that state leaves no slot in the queue.
C16_NoSessionHandled ==
    (IsRequest /\ header.TypeId \in SessionServices \cup {"PublishRequest"} /\ ~session)
        => /\ pc[ReadThread] # "raised"
           /\ pc[ReadThread] \in {"loop", "done"} => publishdata_queue = <<>>

\* C17: every request other than a PublishRequest has, before the next frame is
\* read, exactly one reply carrying its handle, and replies are on the socket in
\* the order of their requests; the handle of a PublishRequest is carried by
\* PublishResponses only, and by none while the request is being dispatched.
ChunksFor(h) == {i \in 1..Len(socket) : IsSecure(socket[i]) /\ socket[i].RequestHandle = h}
IsDirectReply(c) == IsSecure(c) /\ ~IsPublishResponse(c)
DirectReplies == SelectSeq(socket, IsDirectReply)

C17_OneReplyInOrder ==
    /\ (IsRequest /\ header.TypeId # "PublishRequest") =>
          /\ pc[ReadThread] # "raised"
          /\ pc[ReadThread] = "loop" =>
                /\ Cardinality(ChunksFor(header.RequestHandle)) = 1
                /\ DirectReplies[Len(DirectReplies)].RequestHandle = header.RequestHandle
    /\ \A i, j \in 1..Len(DirectReplies) :
          i < j => DirectReplies[i].RequestHandle < DirectReplies[j].RequestHandle
    /\ \A i \in 1..Len(history.pushed) :
          /\ \A k \in ChunksFor(history.pushed[i]) : IsPublishResponse(socket[k])
          /\ Cardinality(ChunksFor(history.pushed[i])) <= 1
    /\ (IsRequest /\ header.TypeId = "PublishRequest"
            /\ pc[ReadThread] \in {"process_body", "process_message"})
          => ChunksFor(header.RequestHandle) = {}

\* C20: no thread is about to read the channel id or the token id of an absent
\* record: not send_response at line 60, not _open_secure_channel at line 295.
C20_RecordExists ==
    /\ \A t \in Threads : pc[t] = "sr_60" => channel # NoChannel
    /\ pc[ReadThread] = "osc_295" => channel # NoChannel

\* C18: in the steady state a read that yields end-of-stream or an Error frame
\* ends the loop at once: nothing is sent, no body is read, nothing is processed;
\* and on every stream that ends the loop eventually terminates.
Terminated == pc[ReadThread] \in {"done", "raised"}

C18_Termination ==
    /\ [][(/\ pc[ReadThread] = "loop"
           /\ ReadStep
           /\ header'.MessageType \in {"EOF", "Error"})
          => /\ pc'[ReadThread] = "done"
             /\ socket' = socket /\ channel' = channel /\ session' = session
             /\ seq_number' = seq_number /\ publishdata_queue' = publishdata_queue]_vars
    /\ <>Terminated

\* C18 witness: the client sent all its frames, none of which ended the loop
\* before, and closed the stream: the loop ended on the end of the stream.
C18_Witness ==
    /\ framesRead = MaxEndingFrames + 1
    /\ pc[ReadThread] = "done"
    /\ history.exit = "eof"
    /\ Len(socket) > 1

\* C19: the read thread never holds the send lock while it calls the session
\* facade or the internal server, and the slot of a PublishRequest is enqueued
\* before session.publish is called; a forward_publish_response called from
\* inside session.publish on the read thread finds that slot in the queue, at
\* its test and at its pop, and sends with a channel record and the lock not its own.
InFacade ==
    pc[ReadThread] \in {"open_secure_channel", "osc_292", "osc_293", "osc_295",
                        "process_message", "publish", "fpr_97", "fpr_103"}
InSyncCallback ==
    \/ pc[ReadThread] \in {"fpr_97", "fpr_103"}
    \/ pc[ReadThread] \in Sending /\ call[ReadThread].response = "PublishResponse"
Queued(h) == \E i \in 1..Len(publishdata_queue) : publishdata_queue[i] = h

LockOrder ==
    /\ (InFacade \/ pc[ReadThread] = "send_response") => lock # ReadThread
    /\ pc[ReadThread] \in {"publish", "fpr_97", "fpr_103"} =>
          \E i \in 1..Len(history.pushed) : history.pushed[i] = header.RequestHandle
    /\ InSyncCallback => channel # NoChannel

C19_SyncCallback ==
    /\ LockOrder
    /\ pc[ReadThread] \in {"fpr_97", "fpr_103"} => Queued(header.RequestHandle)

\* C19, amended: the same, but the synchronous callback finds that slot only if
\* no callback on another thread has popped it first.
C19_SyncCallbackUnlessTaken ==
    /\ LockOrder
    /\ (pc[ReadThread] \in {"fpr_97", "fpr_103"} /\ ~Queued(header.RequestHandle))
          => \E i \in 1..history.popped : history.pushed[i] = header.RequestHandle

\* C19 witness: the read thread, called back from inside session.publish, has
\* popped a slot and written the PublishResponse, and is about to release the lock.
C19_Witness ==
    /\ pc[ReadThread] = "sr_62"
    /\ call[ReadThread].response = "PublishResponse"
    /\ lock = ReadThread

====
